---- MODULE Spec2Model ----
(***************************************************************************)
(* AsyncEventPipeline (async-event-pipeline): a registry of tasks and the  *)
(* recursive runner that threads a payload through them.                   *)
(*                                                                         *)
(* JavaScript is single threaded: one call stack is shared by every        *)
(* execute call.  A task body is user code; it is modelled as an           *)
(* environment that, while it is on top of the call stack, may call its    *)
(* continuation, throw or return, and that may be resumed later by a timer *)
(* or an await (a "cb" frame).                                             *)
(***************************************************************************)
EXTENDS Integers, Sequences, FiniteSets, TLC

VARIABLES tasks, lastAdd, runs, currentIndex, stack

vars == <<tasks, lastAdd, runs, currentIndex, stack>>

(***************************************************************************)
(* Bounds of the model.                                                    *)
(***************************************************************************)
\* MaxTasks: tasks in the registry.  MaxCalls: calls of runner in one
\* execute call.  MaxRuns, MaxConcCalls: execute calls in flight together
\* and the calls of runner they make in total (SpecConc).
MaxTasks == 2
MaxCalls == 4
MaxRuns == 2
MaxConcCalls == 5
\* MaxReplayTasks: tasks in the registry of SpecReplay.
MaxReplayTasks == 3

(***************************************************************************)
(* JavaScript values, by tag.                                              *)
(***************************************************************************)
Undefined == "undefined"
\* Error objects are opaque to the pipeline, which only tests their
\* truthiness and hands them on: the task at index i signals its own
\* error object ErrorOf(i), so errors of different tasks differ.
ErrorNames == <<"E0", "E1", "E2", "E3", "E4">>
ErrorOf(index) == ErrorNames[index + 1]
ProtocolError == "Error: next() called multiple times in the same task."
HandleTypeError == "TypeError: Object tasks must implement a handle(data, next) method."
AddTypeError == "TypeError: Task must be a function or class or object."
Falsy == {"undefined", "null", "0", "false", ""}
Truthy(v) == v \notin Falsy

\* What a caller may hand to add(): plain function, async function, class,
\* object with a handle method, object without one, and non-tasks.
AddArgs == {"function", "asyncFunction", "class", "handler", "object",
            "string", "number", "null", "undefined"}
InitialPayloads == {"a", "0"}
NextDataArgs == {"undefined", "null", "b"}
\* The falsy values a task may pass as a replacement: null, 0, false, ''
FalsyReplacements == Falsy \ {Undefined}

TypeOf(v) ==
    CASE v \in {"function", "asyncFunction", "class"} -> "function"
      [] v \in {"handler", "object", "null"} -> "object"
      [] v = "string" -> "string"
      [] v = "number" -> "number"
      [] OTHER -> "undefined"

\* /^class\s/.test(Function.prototype.toString.call(task))
IsClassSource(v) == v = "class"
\* typeof task.handle === 'function'
HasHandle(v) == v = "handler"

(***************************************************************************)
(* add(task)                                                               *)
(***************************************************************************)
AddAccepts_NoNullCheck(task) ==
    TypeOf(task) = "function" \/ TypeOf(task) = "object"
AddAccepts(task) ==
    TypeOf(task) = "function" \/ (TypeOf(task) = "object" /\ task # "null")

AddTo_Dedup(registry, task) ==
    IF \E i \in DOMAIN registry : registry[i] = task THEN registry ELSE Append(registry, task)
AddTo(registry, task) == Append(registry, task)

\* lastAdd is the add call that has just been made, until its caller has
\* seen it return or throw: add is synchronous, nothing else runs meanwhile.
\* ret is what it returned: the pipeline itself ("this"), or nothing.
NoAdd == [arg |-> Undefined, threw |-> "none", before |-> <<>>, ret |-> "none"]

\* add(task) on a registry that the model lets grow to `room` entries.
AddWithin(task, room) ==
    /\ lastAdd = NoAdd
    /\ IF AddAccepts(task)
         THEN /\ Len(tasks) < room
              /\ tasks' = AddTo(tasks, task)
              /\ lastAdd' = [arg |-> task, threw |-> "none", before |-> tasks,
                              ret |-> "this"]
         ELSE /\ tasks' = tasks
              /\ lastAdd' = [arg |-> task, threw |-> AddTypeError, before |-> tasks,
                              ret |-> "none"]
    /\ UNCHANGED <<runs, currentIndex, stack>>

Add(task) == AddWithin(task, MaxTasks)

\* use(task) { this.add(task); }: the registration without the return
Use_NoReturn(task) ==
    /\ lastAdd = NoAdd
    /\ IF AddAccepts(task)
         THEN /\ Len(tasks) < MaxTasks
              /\ tasks' = AddTo(tasks, task)
              /\ lastAdd' = [arg |-> task, threw |-> "none", before |-> tasks,
                              ret |-> "none"]
         ELSE /\ tasks' = tasks
              /\ lastAdd' = [arg |-> task, threw |-> AddTypeError, before |-> tasks,
                              ret |-> "none"]
    /\ UNCHANGED <<runs, currentIndex, stack>>
\* use(task) { return this.add(task); }
Use(task) == Add(task)

\* The caller of add goes on (with the pipeline returned, or after the
\* TypeError).
AddDone ==
    /\ lastAdd # NoAdd
    /\ lastAdd' = NoAdd
    /\ UNCHANGED <<tasks, runs, currentIndex, stack>>

(***************************************************************************)
(* runner(index, data) and the continuation next(err, nextData)            *)
(***************************************************************************)
\* let currentIndex = 0
InitialCursor_Zero == 1 - 1
InitialCursor == -1

GuardHit_OffByOne(index, cur) == index = cur + 1
GuardHit(index, cur) == index = cur

\* const length = this.#tasks.length, read once when execute is called
PastEnd_Snapshot(index, registry) ==
    index >= (IF runs = <<>> THEN Len(registry) ELSE runs[1].n0)
PastEnd_Strict(index, registry) == index > Len(registry)
PastEnd(index, registry) == index >= Len(registry)

\* this.#tasks[index]: an index outside the array reads undefined
TaskAt(registry, index) ==
    IF index + 1 \in DOMAIN registry THEN registry[index + 1] ELSE Undefined

\* What the try block of runner does with the task: "call" it (function,
\* class or handle method), "typeError" (object without handle), or
\* "nothing" (neither branch of the if).
Dispatch_Lenient(task) ==
    IF TypeOf(task) = "function" \/ TypeOf(task) = "object" THEN "call" ELSE "nothing"
Dispatch(task) ==
    IF TypeOf(task) = "function"
      THEN "call"
      ELSE IF TypeOf(task) = "object"
             THEN IF HasHandle(task) THEN "call" ELSE "typeError"
             ELSE "nothing"

\* nextData ?? data
DataForNextTask_Nullish(nextData, data) ==
    IF nextData \notin {Undefined, "null"} THEN nextData ELSE data
DataForNextTask_Truthy(nextData, data) == IF Truthy(nextData) THEN nextData ELSE data
DataForNextTask(nextData, data) == IF nextData # Undefined THEN nextData ELSE data

NextIndex_Skip(index) == index + 2
NextIndex(index) == index + 1

IsError_Never(err) == FALSE
IsError(err) == Truthy(err)

\* The promise made by `new Promise` in runner: pending, rejected with
\* perr, or resolved with (locked to) the promise of runner call number pto.
\* A settled promise ignores later calls of resolve and reject.
RejectP(c, e) == IF c.p = "pending" THEN [c EXCEPT !.p = "rejected", !.perr = e] ELSE c
ResolveP_Relock(c, q) == [c EXCEPT !.p = "follows", !.pto = q]
ResolveP(c, q) == IF c.p = "pending" THEN [c EXCEPT !.p = "follows", !.pto = q] ELSE c

\* One call of runner.  kind, index, data, task, p, perr, pto are program
\* state; the rest is history: the activation whose continuation made the
\* call and the nextData it passed, whether this activation has called
\* its continuation never, once or more than once ("0", "1", "many"),
\* the error of its first call and the number of runner calls made when it
\* signalled it, and the error with which the promise returned by an async
\* task was rejected.
NewCall(kind, index, data, task, parent, arg) ==
    [kind |-> kind, index |-> index, data |-> data, task |-> task,
     p |-> "pending", perr |-> Undefined, pto |-> 0,
     parent |-> parent, arg |-> arg,
     nexts |-> "0", firstErr |-> "none", errAt |-> 0, lost |-> "none"]

\* One call of runner(index, data) in a run whose calls so far are `calls`
\* and whose cursor is `cur`.  Yields the calls, the cursor and whether a
\* task body has been entered.
Runner(registry, calls, cur, index, data, parent, arg) ==
    IF GuardHit(index, cur)
      THEN [calls |-> Append(calls, NewCall("guard", index, data, Undefined, parent, arg)),
            cur |-> cur, entered |-> FALSE]
      ELSE IF PastEnd(index, registry)
        THEN [calls |-> Append(calls, NewCall("end", index, data, Undefined, parent, arg)),
              cur |-> index, entered |-> FALSE]
        ELSE LET task == TaskAt(registry, index)
                 c == NewCall("step", index, data, task, parent, arg)
             IN  [calls |-> Append(calls,
                              IF Dispatch(task) = "typeError"
                                THEN RejectP(c, HandleTypeError) ELSE c),
                  cur |-> index,
                  entered |-> Dispatch(task) = "call"]

\* next(err, nextData) called by the activation numbered k.
Continue(registry, calls, cur, k, err, nextData) ==
    LET c == calls[k]
        h == [c EXCEPT !.nexts = IF c.nexts = "0" THEN "1" ELSE "many",
                       !.firstErr = IF c.nexts = "0"
                                      THEN (IF Truthy(err) THEN err ELSE Undefined)
                                      ELSE c.firstErr,
                       !.errAt = IF c.nexts = "0" /\ Truthy(err) THEN Len(calls) ELSE c.errAt]
    IN  IF IsError(err)
          THEN [calls |-> [calls EXCEPT ![k] = RejectP(h, err)],
                cur |-> cur, entered |-> FALSE]
          ELSE LET r == Runner(registry, calls, cur, NextIndex(c.index),
                               DataForNextTask(nextData, c.data), k, nextData)
               IN  [calls |-> [r.calls EXCEPT ![k] = ResolveP(h, Len(r.calls))],
                    cur |-> r.cur, entered |-> r.entered]

Pending == [st |-> "pending", val |-> Undefined]

\* The state of the promise that runner call k returned (an async function
\* returns a promise that follows what its body returns or throws).
RECURSIVE Outcome(_, _)
Outcome(calls, k) ==
    LET c == calls[k]
    IN  CASE c.kind = "guard" -> [st |-> "rejected", val |-> ProtocolError]
          [] c.kind = "end" -> [st |-> "fulfilled", val |-> c.data]
          [] c.p = "rejected" -> [st |-> "rejected", val |-> c.perr]
          [] c.p = "follows" -> Outcome(calls, c.pto)
          [] OTHER -> Pending

\* let currentIndex = -1 inside execute: one cursor per call of execute
CursorOf_Shared(r) == 1
CursorOf(r) == r

Frame(r, k, kind) == [run |-> r, call |-> k, kind |-> kind]

Top == stack[Len(stack)]
Pop == SubSeq(stack, 1, Len(stack) - 1)

\* History of an execute call: the first error a task signalled to the
\* pipeline, by next(err) with a truthy err or by a throw that the catch of
\* runner sees ("none" before).
FirstSignal(before, signalled, e) ==
    IF before = "none" /\ signalled THEN e ELSE before

(***************************************************************************)
(* execute(initialData)                                                    *)
(***************************************************************************)
Execute(initialData) ==
    /\ lastAdd = NoAdd
    /\ stack = <<>>
    /\ LET r == Len(runs) + 1
           s == Runner(tasks, <<>>, InitialCursor, 0, initialData, 0, Undefined)
       IN  /\ runs' = Append(runs, [init |-> initialData, n0 |-> Len(tasks),
                                    calls |-> s.calls, settled |-> Pending,
                                    firstSignal |-> "none"])
           /\ currentIndex' = (CursorOf(r) :> s.cur) @@ currentIndex
           /\ stack' = IF s.entered THEN <<Frame(r, 1, "task")>> ELSE <<>>
    /\ UNCHANGED <<tasks, lastAdd>>

\* exec(initialData) { return this.execute(initialData); }
Exec(initialData) == Execute(initialData)

(***************************************************************************)
(* Task bodies: the code on top of the call stack.                         *)
(***************************************************************************)
\* It calls its continuation: next(ErrorOf(index)) or next(null, nextData).
\* A continuation is called by the code of the activation it was handed to.
\* runner is an async function without await: its body runs to the end
\* inside the call of next, so the task it enters starts on top of the
\* caller, and resolve(...) of line 80 finds the caller's promise as it was
\* when next was called.
CallNext(withErr, nextData) ==
    /\ lastAdd = NoAdd
    /\ stack # <<>>
    /\ LET r == Top.run
           k == Top.call
           run == runs[r]
           err == IF withErr THEN ErrorOf(run.calls[k].index) ELSE Undefined
           s == Continue(tasks, run.calls, currentIndex[CursorOf(r)], k, err, nextData)
       IN  /\ runs' = [runs EXCEPT ![r].calls = s.calls,
                                   ![r].firstSignal = FirstSignal(@, Truthy(err), err)]
           /\ currentIndex' = [currentIndex EXCEPT ![CursorOf(r)] = s.cur]
           /\ stack' = IF s.entered
                         THEN Append(stack, Frame(r, Len(s.calls), "task"))
                         ELSE stack
    /\ UNCHANGED <<tasks, lastAdd>>

\* An exception leaves the code on top of the stack.  In the body of a
\* plain function, class constructor or handle method it reaches the catch
\* of runner (reject(err)).  In an async function it rejects the promise
\* the task returned, which runner drops; in a timer callback it is
\* uncaught.  Neither of the last two reaches the pipeline.
Caught(kind, task) == kind = "task" /\ task # "asyncFunction"

AfterThrow(calls, k, kind, e) ==
    IF Caught(kind, calls[k].task)
      THEN [calls EXCEPT ![k] = RejectP(calls[k], e)]
      ELSE IF calls[k].task = "asyncFunction" /\ calls[k].lost = "none"
             THEN [calls EXCEPT ![k].lost = e]
             ELSE calls

Throw ==
    /\ lastAdd = NoAdd
    /\ stack # <<>>
    /\ LET r == Top.run
           k == Top.call
           e == ErrorOf(runs[r].calls[k].index)
       IN  runs' = [runs EXCEPT ![r].calls = AfterThrow(runs[r].calls, k, Top.kind, e),
                                ![r].firstSignal =
                                    FirstSignal(@, Caught(Top.kind, runs[r].calls[k].task), e)]
    /\ stack' = Pop
    /\ UNCHANGED <<tasks, lastAdd, currentIndex>>

\* It returns (or reaches an await).
Return ==
    /\ lastAdd = NoAdd
    /\ stack # <<>>
    /\ stack' = Pop
    /\ UNCHANGED <<tasks, lastAdd, runs, currentIndex>>

\* A timer or an awaited promise resumes a task that was entered before.
Resume(r, k) ==
    /\ lastAdd = NoAdd
    /\ stack = <<>>
    /\ r \in DOMAIN runs
    /\ k \in DOMAIN runs[r].calls
    /\ runs[r].calls[k].kind = "step"
    /\ Dispatch(runs[r].calls[k].task) = "call"
    /\ stack' = <<Frame(r, k, "cb")>>
    /\ UNCHANGED <<tasks, lastAdd, runs, currentIndex>>

\* The promise execute returned settles for its caller (a promise job).
Settle(r) ==
    /\ lastAdd = NoAdd
    /\ stack = <<>>
    /\ r \in DOMAIN runs
    /\ runs[r].settled.st = "pending"
    /\ Outcome(runs[r].calls, 1).st # "pending"
    /\ runs' = [runs EXCEPT ![r].settled = Outcome(runs[r].calls, 1)]
    /\ UNCHANGED <<tasks, lastAdd, currentIndex, stack>>

Init ==
    /\ tasks = <<>>
    /\ lastAdd = NoAdd
    /\ runs = <<>>
    /\ currentIndex = <<>>
    /\ stack = <<>>

(***************************************************************************)
(* Bounds on what the environment does.                                    *)
(***************************************************************************)
RECURSIVE TotalCalls(_)
TotalCalls(rs) == IF rs = <<>> THEN 0 ELSE Len(Head(rs).calls) + TotalCalls(Tail(rs))

TopCall == runs[Top.run].calls[Top.call]

RoomForCall == Len(runs[Top.run].calls) < MaxCalls

(***************************************************************************)
(* Spec: one execute call on a registry built beforehand from any values,  *)
(* with tasks that may call their continuation again, signal errors and    *)
(* throw.                                                                  *)
(***************************************************************************)
Next ==
    \/ \E task \in AddArgs : runs = <<>> /\ Add(task)
    \/ AddDone
    \/ \E x \in {"a"} : runs = <<>> /\ Execute(x)
    \/ \E nextData \in NextDataArgs :
          stack # <<>> /\ RoomForCall /\ CallNext(FALSE, nextData)
    \/ CallNext(TRUE, Undefined)
    \/ Throw
    \/ Return
    \/ \E k \in 1..MaxCalls : Resume(1, k)
    \/ Settle(1)

Spec == Init /\ [][Next]_vars

(***************************************************************************)
(* SpecPlain: as Spec, on a registry of plain functions, with the          *)
(* replacement payloads undefined and null.                                *)
(***************************************************************************)
NextPlain ==
    \/ \E task \in {"function"} : runs = <<>> /\ Add(task)
    \/ AddDone
    \/ \E x \in {"a"} : runs = <<>> /\ Execute(x)
    \/ \E nextData \in {Undefined, "null"} :
          stack # <<>> /\ RoomForCall /\ CallNext(FALSE, nextData)
    \/ CallNext(TRUE, Undefined)
    \/ Throw
    \/ Return
    \/ \E k \in 1..MaxCalls : Resume(1, k)
    \/ Settle(1)

SpecPlain == Init /\ [][NextPlain]_vars

(***************************************************************************)
(* SpecRegistry: calls of add and use, with any value, on the pipeline.    *)
(***************************************************************************)
NextRegistry ==
    \/ \E task \in AddArgs : Add(task)
    \/ \E task \in AddArgs : Use(task)
    \/ AddDone

SpecRegistry == Init /\ [][NextRegistry]_vars

(***************************************************************************)
(* SpecConc: up to MaxRuns execute calls in flight on one registry of      *)
(* plain functions, interleaved wherever the call stack is empty; tasks    *)
(* may call their continuation again.                                      *)
(***************************************************************************)
RoomForConcCall == TotalCalls(runs) < MaxConcCalls

NextConc ==
    \/ \E task \in {"function"} : runs = <<>> /\ Add(task)
    \/ AddDone
    \/ \E x \in {"a"} : Len(runs) < MaxRuns /\ RoomForConcCall /\ Execute(x)
    \/ \E nextData \in {Undefined, "null"} :
          stack # <<>> /\ RoomForConcCall /\ CallNext(FALSE, nextData)
    \/ Return
    \/ \E r \in 1..MaxRuns, k \in 1..MaxConcCalls : Resume(r, k)
    \/ \E r \in 1..MaxRuns : Settle(r)

SpecConc == Init /\ [][NextConc]_vars

(***************************************************************************)
(* SpecGood: one execute call on a registry of callable tasks, each of     *)
(* which calls its continuation exactly once, without an error, in its     *)
(* body or after having been resumed.  The event loop runs every pending   *)
(* job, and every task does continue.                                      *)
(***************************************************************************)
CallableArgs == {"function", "asyncFunction", "class", "handler"}

ContinueOnce(nextData) ==
    stack # <<>> /\ TopCall.nexts = "0" /\ RoomForCall /\ CallNext(FALSE, nextData)

ResumeOwing(k) ==
    k \in DOMAIN runs[1].calls /\ runs[1].calls[k].nexts = "0" /\ Resume(1, k)

NextGood ==
    \/ \E task \in CallableArgs : runs = <<>> /\ Add(task)
    \/ AddDone
    \/ \E x \in InitialPayloads : runs = <<>> /\ Execute(x)
    \/ \E nextData \in NextDataArgs : ContinueOnce(nextData)
    \/ Return
    \/ \E k \in 1..MaxCalls : runs # <<>> /\ ResumeOwing(k)
    \/ Settle(1)

SpecGood ==
    /\ Init /\ [][NextGood]_vars
    /\ WF_vars(Return)
    /\ WF_vars(Settle(1))
    /\ WF_vars(\E k \in 1..MaxCalls : runs # <<>> /\ ResumeOwing(k))
    /\ SF_vars(\E nextData \in NextDataArgs : ContinueOnce(nextData))

(***************************************************************************)
(* SpecShapes: as SpecGood without the fairness, on a registry that may    *)
(* also hold objects without a handle method.                              *)
(***************************************************************************)
NextShapes ==
    \/ \E task \in CallableArgs \cup {"object"} : runs = <<>> /\ Add(task)
    \/ AddDone
    \/ \E x \in {"a"} : runs = <<>> /\ Execute(x)
    \/ \E nextData \in {Undefined, "b"} : ContinueOnce(nextData)
    \/ Return
    \/ \E k \in 1..MaxCalls : runs # <<>> /\ ResumeOwing(k)
    \/ Settle(1)

SpecShapes == Init /\ [][NextShapes]_vars

(***************************************************************************)
(* SpecAlias: registration of any value through add and use, execute       *)
(* calls through execute and exec, with tasks that each continue at most   *)
(* once.                                                                   *)
(***************************************************************************)
NextAlias ==
    \/ \E task \in AddArgs : runs = <<>> /\ Add(task)
    \/ \E task \in AddArgs : runs = <<>> /\ Use(task)
    \/ AddDone
    \/ \E x \in InitialPayloads : runs = <<>> /\ Execute(x)
    \/ \E x \in InitialPayloads : runs = <<>> /\ Exec(x)
    \/ \E nextData \in {Undefined, "b"} : ContinueOnce(nextData)
    \/ Return
    \/ \E k \in 1..MaxCalls : runs # <<>> /\ ResumeOwing(k)
    \/ Settle(1)

SpecAlias == Init /\ [][NextAlias]_vars

(***************************************************************************)
(* SpecFalsy: as SpecGood without the fairness, on a registry of plain     *)
(* functions, with every falsy value as a replacement payload.             *)
(***************************************************************************)
NextFalsy ==
    \/ \E task \in {"function"} : runs = <<>> /\ Add(task)
    \/ AddDone
    \/ \E x \in {"a"} : runs = <<>> /\ Execute(x)
    \/ \E nextData \in {Undefined} \cup FalsyReplacements : ContinueOnce(nextData)
    \/ Return
    \/ \E k \in 1..MaxCalls : runs # <<>> /\ ResumeOwing(k)
    \/ Settle(1)

SpecFalsy == Init /\ [][NextFalsy]_vars

(***************************************************************************)
(* SpecOnce: one execute call on a registry of tasks of every shape, each  *)
(* activation of which calls its continuation at most once, with or        *)
(* without an error, and may throw, in its body or when it is resumed.     *)
(***************************************************************************)
SignalOnce ==
    stack # <<>> /\ TopCall.nexts = "0" /\ CallNext(TRUE, Undefined)

NextOnce ==
    \/ \E task \in CallableArgs \cup {"object"} : runs = <<>> /\ Add(task)
    \/ AddDone
    \/ \E x \in {"a"} : runs = <<>> /\ Execute(x)
    \/ \E nextData \in {Undefined, "b"} : ContinueOnce(nextData)
    \/ SignalOnce
    \/ Throw
    \/ Return
    \/ \E k \in 1..MaxCalls : Resume(1, k)
    \/ Settle(1)

SpecOnce == Init /\ [][NextOnce]_vars

(***************************************************************************)
(* SpecLate: one execute call, with tasks registered before it, while it   *)
(* is in flight (by a task or by other code) and after it has settled;     *)
(* each task continues at most once, with or without an error.             *)
(***************************************************************************)
NextLate ==
    \/ \E task \in {"function", "handler"} : Add(task)
    \/ AddDone
    \/ \E x \in {"a"} : runs = <<>> /\ Execute(x)
    \/ \E nextData \in {Undefined, "b"} : ContinueOnce(nextData)
    \/ SignalOnce
    \/ Return
    \/ \E k \in 1..MaxCalls : runs # <<>> /\ ResumeOwing(k)
    \/ Settle(1)

SpecLate == Init /\ [][NextLate]_vars

(***************************************************************************)
(* SpecReplay: one execute call on a registry of up to MaxReplayTasks      *)
(* plain functions; a task may call its continuation again, in its body    *)
(* or when it is resumed, after later tasks have continued.                *)
(***************************************************************************)
NextReplay ==
    \/ \E task \in {"function"} : runs = <<>> /\ AddWithin(task, MaxReplayTasks)
    \/ AddDone
    \/ \E x \in {"a"} : runs = <<>> /\ Execute(x)
    \/ stack # <<>> /\ RoomForCall /\ CallNext(FALSE, Undefined)
    \/ Return
    \/ \E k \in 1..MaxCalls : Resume(1, k)
    \/ Settle(1)

SpecReplay == Init /\ [][NextReplay]_vars

(***************************************************************************)
(* Properties                                                              *)
(***************************************************************************)
Calls(r) == runs[r].calls
Result(r) == Outcome(Calls(r), 1)
Rejected(e) == [st |-> "rejected", val |-> e]
Fulfilled(d) == [st |-> "fulfilled", val |-> d]
\* A runner call that entered a task body.
Entered(c) == c.kind = "step" /\ Dispatch(c.task) = "call"

\* C3 (as claimed).  Short-circuit on error: once the first continuation
\* call of the activation of Ti carried a truthy error, the promise execute
\* returned is rejected with exactly that error, and no task Tj with j > i
\* is entered by any later call of runner in that execute call.
C3_ShortCircuitClaimed ==
    \A r \in DOMAIN runs : \A k \in DOMAIN Calls(r) :
        LET c == Calls(r)[k]
        IN  (Entered(c) /\ c.firstErr \notin {"none", Undefined}) =>
              /\ Result(r) = Rejected(c.firstErr)
              /\ \A j \in DOMAIN Calls(r) :
                    (j > c.errAt /\ Entered(Calls(r)[j])) => Calls(r)[j].index <= c.index

\* C4 (as claimed).  Double-continuation guard: once an activation whose
\* first continuation call carried no error has called its continuation a
\* second time, the promise execute returned is rejected with the
\* protocol-violation error, and that activation has entered at most one
\* task (the second call entered none).
C4_DoubleNextClaimed ==
    \A r \in DOMAIN runs : \A k \in DOMAIN Calls(r) :
        LET c == Calls(r)[k]
        IN  (Entered(c) /\ c.nexts = "many" /\ c.firstErr = Undefined) =>
              /\ Result(r) = Rejected(ProtocolError)
              /\ Cardinality({j \in DOMAIN Calls(r) :
                                Calls(r)[j].parent = k /\ Entered(Calls(r)[j])}) <= 1

\* C5 (as claimed).  Asynchronous failure channel: when the promise an
\* async-function task returned is rejected with an error and the task has
\* not called its continuation, the promise execute returned is rejected
\* with that error.
C5_AsyncFailureClaimed ==
    \A r \in DOMAIN runs : \A k \in DOMAIN Calls(r) :
        LET c == Calls(r)[k]
        IN  (c.task = "asyncFunction" /\ c.lost # "none" /\ c.nexts = "0") =>
              Result(r) = Rejected(c.lost)

\* C1.  Order invariant (SpecGood: every task continues exactly once
\* without an error): the k-th call of runner in an execute call is the one
\* for index k-1, it enters the task registered at that place while there
\* is one and is the final step after the last, and it was made by the
\* continuation of the activation before it, which has fired.
C1_OrderInvariant ==
    \A r \in DOMAIN runs : \A k \in DOMAIN Calls(r) :
        LET c == Calls(r)[k]
        IN  /\ c.index = k - 1
            /\ c.kind = IF k <= Len(tasks) THEN "step" ELSE "end"
            /\ k <= Len(tasks) => (c.task = tasks[k] /\ Entered(c))
            /\ k > 1 => (c.parent = k - 1 /\ Calls(r)[k - 1].nexts = "1")

C1_Witness ==
    /\ runs # <<>>
    /\ Len(tasks) = 2
    /\ Len(Calls(1)) = 3
    /\ Calls(1)[2].index = 1 /\ Calls(1)[2].parent = 1
    /\ Calls(1)[3].kind = "end"

\* The payload after the tasks from call k on have each applied the
\* replacement they passed (the arg of the call they made), starting from v.
RECURSIVE Threaded(_, _, _)
Threaded(calls, k, v) ==
    IF k >= Len(calls) THEN v
    ELSE Threaded(calls, k + 1,
                  IF calls[k + 1].arg # Undefined THEN calls[k + 1].arg ELSE v)

AllFired(r) ==
    /\ Len(Calls(r)) = Len(tasks) + 1
    /\ \A k \in 1..Len(tasks) : Calls(r)[k].nexts = "1"

C7_Safe ==
    \A r \in DOMAIN runs :
        /\ Result(r).st # "pending" =>
              (AllFired(r) /\ Result(r) = Fulfilled(Threaded(Calls(r), 1, runs[r].init)))
        /\ runs[r].settled.st # "pending" => runs[r].settled = Result(r)

\* C7.  Completion (SpecGood): an execute call eventually resolves; it
\* resolves with the initial payload transformed by each task's replacement
\* in registration order, and not before the continuation of every
\* registered task has fired.
C7_Completion ==
    /\ []C7_Safe
    /\ (runs # <<>>) ~> (runs # <<>> /\ runs[1].settled.st = "fulfilled")

C7_Witness ==
    /\ runs # <<>>
    /\ Len(tasks) = 2
    /\ Len(Calls(1)) = 3
    /\ Calls(1)[2].arg = "b" /\ Calls(1)[3].arg = Undefined
    /\ runs[1].settled = Fulfilled("b")

\* C8.  Empty pipeline: an execute call made on an empty registry makes one
\* call of runner, which is the final step; it enters no task, the promise
\* it returns is fulfilled with the initial payload, and it settles with
\* nothing else.
C8_EmptyPipeline ==
    \A r \in DOMAIN runs :
        runs[r].n0 = 0 =>
            /\ Len(Calls(r)) = 1
            /\ Calls(r)[1].kind = "end"
            /\ Result(r) = Fulfilled(runs[r].init)
            /\ runs[r].settled \in {Pending, Fulfilled(runs[r].init)}

C8_Witness ==
    /\ runs # <<>>
    /\ runs[1].n0 = 0
    /\ runs[1].init = "0"
    /\ runs[1].settled = Fulfilled("0")

\* C2.  Payload threading: every call of runner made by a continuation is
\* for the index after its caller's, and its payload is exactly the
\* replacement the caller passed if it passed one, and otherwise exactly the
\* payload the caller was entered with; and an activation whose first
\* continuation call carried no error has made such a call.
C2_PayloadThreading ==
    \A r \in DOMAIN runs : \A k \in DOMAIN Calls(r) :
        LET c == Calls(r)[k]
        IN  /\ c.parent # 0 =>
                /\ c.index = Calls(r)[c.parent].index + 1
                /\ c.data = IF c.arg # Undefined THEN c.arg ELSE Calls(r)[c.parent].data
            /\ (c.nexts # "0" /\ c.firstErr = Undefined) =>
                  \E j \in DOMAIN Calls(r) : Calls(r)[j].parent = k

C2_Witness ==
    /\ runs # <<>>
    /\ Len(Calls(1)) >= 3
    /\ Calls(1)[2].parent = 1 /\ Calls(1)[2].arg = "null" /\ Calls(1)[2].data = "null"
    /\ Calls(1)[3].parent = 2 /\ Calls(1)[3].arg = Undefined /\ Calls(1)[3].data = "null"
    /\ Entered(Calls(1)[2])

\* What a caller of execute and the tasks can observe of the runner calls:
\* which were made, with what, and the state of their promises.
Obs(calls) ==
    [k \in DOMAIN calls |->
        [kind |-> calls[k].kind, index |-> calls[k].index, data |-> calls[k].data,
         task |-> calls[k].task, p |-> calls[k].p, perr |-> calls[k].perr,
         pto |-> calls[k].pto]]

ErrorVals == {ErrorOf(i) : i \in 0..MaxTasks}

\* C6.  Throw-as-failure equivalence: at every point of the body of a task
\* (not an async function) and for every error e, throwing e leaves the
\* execute call as calling next(e) and returning does: the same runner
\* calls with the same promise states, the same cursor, no task entered,
\* and the same state of the promise execute returned.
C6_ThrowEquivalence ==
    (stack # <<>> /\ Top.kind = "task" /\ TopCall.task # "asyncFunction") =>
        \A e \in ErrorVals :
            LET r == Top.run
                cur == currentIndex[CursorOf(r)]
                thrown == AfterThrow(Calls(r), Top.call, "task", e)
                signalled == Continue(tasks, Calls(r), cur, Top.call, e, Undefined)
            IN  /\ Obs(thrown) = Obs(signalled.calls)
                /\ signalled.cur = cur
                /\ ~signalled.entered
                /\ Outcome(thrown, 1) = Outcome(signalled.calls, 1)

\* A task threw in its body before calling its continuation, and the
\* execute call settled with its error.
C6_Witness ==
    /\ runs # <<>>
    /\ \E k \in DOMAIN Calls(1) :
          /\ Calls(1)[k].nexts = "0"
          /\ Calls(1)[k].p = "rejected"
          /\ runs[1].settled = Rejected(ErrorOf(Calls(1)[k].index))

IsCallable(v) == v \in {"function", "asyncFunction", "class"}

RECURSIVE LastPassed(_)
LastPassed(calls) ==
    IF calls = <<>> THEN InitialCursor
    ELSE IF calls[Len(calls)].kind # "guard" THEN calls[Len(calls)].index
    ELSE LastPassed(SubSeq(calls, 1, Len(calls) - 1))

\* C10.  Independent concurrent runs: in every execute call, however the
\* calls are interleaved, each call of runner hit the double-continuation
\* guard exactly when its index is the one the last guard-passing call of
\* the same execute call left, and the cursor the execute call reads is the
\* one its own calls left.
C10_IndependentRuns ==
    \A r \in DOMAIN runs :
        /\ currentIndex[CursorOf(r)] = LastPassed(Calls(r))
        /\ \A j \in DOMAIN Calls(r) :
              (Calls(r)[j].kind = "guard") <=>
                  (Calls(r)[j].index = LastPassed(SubSeq(Calls(r), 1, j - 1)))

\* Two execute calls in flight, neither settled: the first has hit its own
\* guard at index 1 while the cursor of the second is at 0.
C10_Witness ==
    /\ Len(runs) = 2
    /\ Len(Calls(1)) = 3
    /\ Calls(1)[3].kind = "guard"
    /\ Entered(Calls(2)[1])
    /\ currentIndex[CursorOf(1)] = 1 /\ currentIndex[CursorOf(2)] = 0
    /\ runs[1].settled = Pending /\ runs[2].settled = Pending

\* A task activation that holds the payload: its body was entered, it has
\* not called its continuation and it has not thrown.
Active(c) == Entered(c) /\ c.nexts = "0" /\ c.p = "pending"

\* C11 (as claimed).  Mutual exclusion of tasks: within one execute call
\* there is at every moment at most one activation that was invoked and
\* whose continuation has not fired.
C11_MutualExclusionClaimed ==
    \A r \in DOMAIN runs :
        Cardinality({k \in DOMAIN Calls(r) : Active(Calls(r)[k])}) <= 1

\* C12 (as claimed).  Outcome settles once with the first error: what the
\* caller of execute saw settle is still the outcome (no later continuation
\* call or throw changed it), and when the execute call is rejected with
\* the error of a task, that error is the first one a task signalled.
C12_FirstErrorClaimed ==
    \A r \in DOMAIN runs :
        /\ runs[r].settled # Pending => runs[r].settled = Result(r)
        /\ (Result(r).st = "rejected" /\ Result(r).val \in ErrorVals) =>
              Result(r).val = runs[r].firstSignal

IsPrefix(s, t) == Len(s) <= Len(t) /\ SubSeq(t, 1, Len(s)) = s

\* C13.  Append-only registry: a successful add leaves the registry as it
\* was with the task appended at the end, whether or not the task is
\* already in it, and returns the pipeline; no step removes or reorders an
\* entry (the registry before a step is a prefix of the registry after it);
\* and in a run the k-th call of runner enters the k-th registered task, so
\* a task registered twice is entered twice.
C13_AppendOnly ==
    /\ []((lastAdd # NoAdd /\ lastAdd.threw = "none") =>
            (tasks = Append(lastAdd.before, lastAdd.arg) /\ lastAdd.ret = "this"))
    /\ [][IsPrefix(tasks, tasks') /\ Len(tasks') <= Len(tasks) + 1]_vars
    /\ [](\A r \in DOMAIN runs : \A k \in 1..Len(tasks) :
            k <= Len(Calls(r)) => (Entered(Calls(r)[k]) /\ Calls(r)[k].task = tasks[k]))

\* The same task registered twice, and a run that entered both entries
\* one after the other and resolved.
C13_Witness ==
    /\ tasks = <<"handler", "handler">>
    /\ runs # <<>>
    /\ Len(Calls(1)) = 3
    /\ \A k \in 1..2 : Entered(Calls(1)[k]) /\ Calls(1)[k].task = tasks[k]
    /\ Calls(1)[2].parent = 1
    /\ runs[1].settled.st = "fulfilled"

\* The activations of the task at index i in an execute call.
ActivationsOf(r, i) == {k \in DOMAIN Calls(r) : Calls(r)[k].index = i /\ Entered(Calls(r)[k])}

\* The task at index i was invoked and has neither called its continuation
\* nor thrown.
Stalled(r, i) ==
    /\ ActivationsOf(r, i) # {}
    /\ \A k \in ActivationsOf(r, i) :
          Calls(r)[k].nexts = "0" /\ Calls(r)[k].p = "pending" /\ Calls(r)[k].lost = "none"

\* No task before index i failed: none signalled an error or threw before
\* it continued (the promise of its step is not rejected).
NoFailureBefore(r, i) ==
    \A j \in DOMAIN Calls(r) : Calls(r)[j].index < i => Calls(r)[j].p # "rejected"

C17_FalsyReplacement ==
    \A r \in DOMAIN runs : \A k \in DOMAIN Calls(r) :
        LET c == Calls(r)[k]
        IN  /\ c.parent # 0 =>
                /\ c.arg \in FalsyReplacements => c.data = c.arg
                /\ c.arg = Undefined => c.data = Calls(r)[c.parent].data
            /\ (c.kind = "end" /\ runs[r].settled # Pending) =>
                  runs[r].settled = Fulfilled(c.data)

\* The first task replaced the payload 'a' by false, the second received
\* false and passed nothing, and the execute call resolved with false.
C17_Witness ==
    /\ runs # <<>>
    /\ Len(Calls(1)) = 3
    /\ Calls(1)[1].data = "a"
    /\ Calls(1)[2].arg = "false" /\ Calls(1)[2].data = "false" /\ Entered(Calls(1)[2])
    /\ Calls(1)[3].arg = Undefined /\ Calls(1)[3].data = "false"
    /\ runs[1].settled = Fulfilled("false")

\* C18 (as claimed).  At most one activation per task: within one execute
\* call, whatever the tasks do with their continuations, the task at each
\* index is entered at most once.
C18_OneActivationClaimed ==
    \A r \in DOMAIN runs : \A i \in 0..(Len(tasks) - 1) :
        Cardinality(ActivationsOf(r, i)) <= 1

\* No activation of the execute call has called its continuation twice.
AtMostOnce(r) == \A k \in DOMAIN Calls(r) : Calls(r)[k].nexts # "many"

\* C19.  No false protocol violation: in an execute call in which every
\* activation has called its continuation at most once, the k-th call of
\* runner is for index k-1 and none hit the guard; the cursor is the index
\* of the last call, at most the number of registered tasks; each step
\* leaves the cursor as it was or one higher; and the promise execute
\* returned is not rejected with the protocol-violation error.
C19_NoFalseProtocolViolation ==
    /\ [](\A r \in DOMAIN runs :
            AtMostOnce(r) =>
              /\ \A k \in DOMAIN Calls(r) :
                    Calls(r)[k].index = k - 1 /\ Calls(r)[k].kind # "guard"
              /\ currentIndex[CursorOf(r)] = Len(Calls(r)) - 1
              /\ currentIndex[CursorOf(r)] <= Len(tasks)
              /\ Result(r) # Rejected(ProtocolError)
              /\ runs[r].settled # Rejected(ProtocolError))
    /\ [][\A r \in DOMAIN runs :
            AtMostOnce(r)' =>
              currentIndex'[CursorOf(r)] \in
                  {currentIndex[CursorOf(r)], currentIndex[CursorOf(r)] + 1}]_vars

\* Both tasks have continued once, the cursor has stepped 0, 1, 2 and the
\* execute call has resolved.
C19_Witness ==
    /\ runs # <<>>
    /\ Len(tasks) = 2
    /\ Len(Calls(1)) = 3
    /\ Calls(1)[1].nexts = "1" /\ Calls(1)[2].nexts = "1"
    /\ currentIndex[CursorOf(1)] = 2
    /\ runs[1].settled.st = "fulfilled"

LastCall(calls) == calls[Len(calls)]

====
